---- MODULE Spec2Model ----
(***************************************************************************)
(* bevy_winit: the runner that bridges winit's callback-driven event loop  *)
(* (Backend Thread) to the application's tick loop (Application Thread).   *)
(* Source: src/crates/bevy_winit/src/lib.rs                                *)
(***************************************************************************)
EXTENDS Integers, Sequences, FiniteSets, TLC

\* ---------------------------------------------------------------- bounds
\* Number of ordinary native events the backend delivers.
MaxCallbacks == 2
\* Number of application ticks started without a pending application exit.
MaxTicks == 2
\* Number of CreateWindow requests the application issues.
MaxWindows == 2

\* Number of window commands the application enqueues.
MaxCommands == 2

\* ------------------------------------------------------------- constants
\* mpsc::sync_channel::<()>(0): capacity of the exit channel.
ExitChanCapacity == 0

\* Backend window ids the native loop reports events for: the id of the first
\* window created and an id that is never registered.
WinitIds == {1, MaxWindows + 1}
\* Application window ids.
WindowIds == 1..MaxWindows

VARIABLES
    is_any_thread,  \* argument of winit_runner_with
    should_return_from_run, \* WinitConfig::return_from_run
    run_return_supported,   \* the target has EventLoopExtRunReturn
    channels,       \* the channels have been created
    bloop,          \* backend thread: "unspawned" | "init" | "running" |
                    \* "exited" | "panicked"
    cb,             \* position inside event_handler: "none" | "polled" | "sent"
    cbEvent,        \* the native event the running callback was invoked with
    control,        \* *control_flow of the native loop: "Poll" | "Exit"
    destroyed,      \* LoopDestroyed has been delivered
    chan,           \* Event Channel (winit_event_sender -> winit_event_receiver)
    exitBuf,        \* signals buffered in the exit channel
    sendTaken,      \* the blocked send's signal was taken by the receiver
    apc,            \* application thread position: "start" | "rejected" |
                    \* "check" | "sending" | "drain" | "create" |
                    \* "returned" | "panicked" | "killed"
    exitPending,    \* AppExit events the app_exit_event_reader has not read yet
    current_elwt,   \* 0 = None, else the pointer carried by MainEventsCleared
    proxy,          \* the EventLoopProxy resource has been inserted
    winit_windows,  \* Registry: set of <<backend id, application id>>
    windows,        \* Windows resource: set of application ids
    createEvents,   \* CreateWindow events the reader has not read yet
    published,      \* application-bus events published in the current tick
    \* history variables
    nsent,          \* events enqueued on the Event Channel so far
    nrecv,          \* exit signals received by the backend thread
    nsendStart,     \* exit sends started
    nsendRet,       \* exit sends that returned Ok
    ncb,            \* ordinary callbacks invoked
    ticks,          \* ticks started
    requested,      \* CreateWindow requests issued so far
    nrecorded,      \* ticks whose update recorded an AppExit event
    created,        \* ids of the WindowCreated events published so far
    nupdates,       \* invocations of app.update()
    drained,        \* the Event Channel as the drain of this tick found it
    handled,        \* ids of the events of this tick whose match arm ran
    skipped,        \* ids of the events of this tick that did not resolve
    \* change_window
    commands,       \* Window::command_queue of every Window
    window_scale,   \* Window::scale_factor of every Window
    window_physical, \* Window::physical_width, physical_height of every Window
    backend,        \* what the setters of every native window were given
    scaleEvents,    \* Events<WindowScaleFactorChanged> sent by the last run
    applied,        \* history: the commands the last run matched, in order
    nenq,           \* history: commands enqueued so far
    \* legacy keyboard channel
    keyboard_input  \* inputs pending on keyboard_input_sender's channel

runnerVars ==
    <<is_any_thread, should_return_from_run, run_return_supported,
      channels, bloop, cb, cbEvent, control, destroyed, chan,
      exitBuf, sendTaken, apc, exitPending, current_elwt, proxy,
      winit_windows, windows, createEvents, published, nsent, nrecv,
      nsendStart, nsendRet, ncb, ticks, requested, nrecorded, created,
      nupdates, drained, handled, skipped>>
cmdVars == <<commands, window_scale, window_physical, backend, scaleEvents,
            applied, nenq>>
vars == <<runnerVars, cmdVars, keyboard_input>>

configVars == <<is_any_thread, should_return_from_run, run_return_supported,
                channels>>
backendVars == <<bloop, cb, cbEvent, control, destroyed, ncb>>
worldVars == <<current_elwt, proxy, winit_windows, windows, createEvents,
               published, requested, nrecorded, created, nupdates>>
drainVars == <<drained, handled, skipped>>

\* ----------------------------------------------------------------- events
NoEvent == [tag |-> "NoEvent", wev |-> "None", wid |-> 0]

\* Native events winit hands to the callback (event::Event).
NativeWindowKinds == {"CloseRequested", "Destroyed"}
\* Destroyed, which the callback translates to WinitWindowEvent::None, is
\* delivered for the first window only.
NativeEvents ==
    {e \in [tag : {"WindowEvent"}, wev : NativeWindowKinds, wid : WinitIds] :
        e.wev = "Destroyed" => e.wid = 1}
    \cup [tag : {"DeviceMouseMotion", "MainEventsCleared"},
          wev : {"None"}, wid : {0}]
LoopDestroyed == [tag |-> "LoopDestroyed", wev |-> "None", wid |-> 0]

\* WindowEvent -> WinitWindowEvent (inner match of event_handler).
TranslateWindowEvent(wev) ==
    IF wev = "CloseRequested" THEN "CloseRequested" ELSE "None"

\* Event -> WinitEvent (outer match of event_handler); n is the position of
\* the event in the order of enqueuing; for MainEventsCleared it also stands
\* for the address of the EventLoopWindowTarget of this callback invocation.
Translate(ev, n) ==
    CASE ev.tag = "WindowEvent" ->
           [id |-> n, tag |-> "WindowEvent",
            wev |-> TranslateWindowEvent(ev.wev), wid |-> ev.wid]
      [] ev.tag = "DeviceMouseMotion" ->
           [id |-> n, tag |-> "MouseMotion", wev |-> "None", wid |-> 0]
      [] ev.tag = "MainEventsCleared" ->
           [id |-> n, tag |-> "MainEventsCleared", wev |-> "None", wid |-> 0]
      [] OTHER ->
           [id |-> n, tag |-> "None", wev |-> "None", wid |-> 0]

CreatedProxy(n) == [id |-> n, tag |-> "CreatedProxy", wev |-> "None", wid |-> 0]

\* ------------------------------------------------------- channel liveness
\* winit_event_receiver is a local of winit_runner_with: it is dropped when
\* the function returns or unwinds.
EventReceiverDropped == apc \in {"returned", "panicked", "killed"}

\* A receiver that outlives the backend loop.
ExitReceiverNeverDropped == FALSE

\* app_exit_event_receiver is owned by event_handler, which the backend
\* thread drops when its loop ends or unwinds.
ExitReceiverDropped == bloop \in {"exited", "panicked"}

\* ----------------------------------------------------------------- Init
\* ---------------------------------------------------------- change_window
\* The Windows the command processor works on.
CmdWindowIds == {1, 2}

\* f32::INFINITY: above every finite size.
Infinity == 800 * 800
IsFinite(x) == x < Infinity

\* bevy_window::WindowCommand.  Of the direct setters SetTitle stands for
\* all; the bounds of SetResizeConstraints are those check_constraints
\* resolves the command's constraints to.
WindowCommands ==
    [tag : {"SetTitle"}, title : {"a", "b"}]
    \cup [tag : {"SetScaleFactor"}, scale_factor : {2}]
    \cup [tag : {"SetResolution"}, width : {800}, height : {600},
          scale_factor : {1, 2}]
    \cup [tag : {"SetVsync"}]
    \cup [tag : {"SetResizeConstraints"}, min_width : {600},
          min_height : {600}, max_width : {800, Infinity},
          max_height : {800, Infinity}]

\* A native window no setter has been called on.
FreshWindow ==
    [title |-> "", inner_size |-> <<>>, min_inner_size |-> <<>>,
     max_inner_size |-> <<>>]

\* No command has been enqueued or applied.
CmdIdle ==
    /\ commands = [w \in CmdWindowIds |-> <<>>]
    /\ window_scale = [w \in CmdWindowIds |-> 1]
    /\ window_physical = [w \in CmdWindowIds |-> <<800, 600>>]
    /\ backend = [w \in CmdWindowIds |-> FreshWindow]
    /\ scaleEvents = <<>>
    /\ applied = <<>>
    /\ nenq = 0
    /\ keyboard_input = <<>>

\* The configurations a run starts from: the runner's argument, the
\* WinitConfig resource and the target platform.
Configs ==
    [any : {TRUE}, ret : BOOLEAN, rr : {TRUE}]
    \cup {[any |-> TRUE, ret |-> TRUE, rr |-> FALSE],
          [any |-> FALSE, ret |-> FALSE, rr |-> TRUE]}

Init ==
    /\ \E c \in Configs :
          /\ is_any_thread = c.any
          /\ should_return_from_run = c.ret
          /\ run_return_supported = c.rr
    /\ channels = FALSE
    /\ bloop = "unspawned"
    /\ cb = "none"
    /\ cbEvent = NoEvent
    /\ control = "Poll"
    /\ destroyed = FALSE
    /\ chan = <<>>
    /\ exitBuf = 0
    /\ sendTaken = FALSE
    /\ apc = "start"
    /\ exitPending = FALSE
    /\ current_elwt = 0
    /\ proxy = FALSE
    /\ winit_windows = {}
    /\ windows = {}
    /\ \E n \in 1..MaxWindows :
          /\ createEvents = [i \in 1..n |-> i]
          /\ requested = n
    /\ published = <<>>
    /\ nsent = 0
    /\ nrecv = 0
    /\ nsendStart = 0
    /\ nsendRet = 0
    /\ ncb = 0
    /\ ticks = 0
    /\ nrecorded = 0
    /\ created = <<>>
    /\ nupdates = 0
    /\ drained = <<>>
    /\ handled = <<>>
    /\ skipped = <<>>
    /\ CmdIdle

\* ------------------------------------------------------- Backend Thread
\* run_return on a target without EventLoopExtRunReturn panics.
RunReturnPanics == should_return_from_run /\ ~run_return_supported

\* thread::spawn closure up to the loop: EventLoop::new_any_thread() and the
\* send of CreatedProxy, unwrapped; then the entry into run or run_return,
\* which panics at once where it is not supported.
BackendStart ==
    /\ bloop = "init"
    /\ IF EventReceiverDropped
       THEN /\ bloop' = "panicked"
            /\ UNCHANGED <<chan, nsent>>
       ELSE /\ bloop' = IF RunReturnPanics THEN "panicked" ELSE "running"
            /\ chan' = Append(chan, CreatedProxy(nsent + 1))
            /\ nsent' = nsent + 1
    /\ UNCHANGED configVars
    /\ UNCHANGED cmdVars
    /\ UNCHANGED keyboard_input
    /\ UNCHANGED <<cb, cbEvent, control, destroyed,
                   exitBuf, sendTaken, apc, exitPending, nrecv, nsendStart,
                   nsendRet, ncb, ticks>>
    /\ UNCHANGED worldVars
    /\ UNCHANGED drainVars

\* app_exit_event_receiver.try_recv(): a signal is there when one is buffered
\* or a sender is blocked in send with its signal not yet taken.
TryRecvOk == exitBuf > 0 \/ (apc = "sending" /\ ~sendTaken)

\* *control_flow = Poll; if try_recv is Ok, *control_flow = Exit.  winit keeps
\* Exit once set (the callback then writes to a scratch copy).
PollControl(got, cf) ==
    IF cf = "Exit" THEN "Exit" ELSE IF got THEN "Exit" ELSE "Poll"

\* A loop that goes on invoking the callback after it has ended.
LoopInvokesAfterExit(ev) ==
    /\ bloop \in {"running", "exited"}
    /\ cb = "none"
    /\ \/ /\ ev \in NativeEvents
          /\ \/ ncb < MaxCallbacks
             \/ apc = "sending" /\ control = "Poll"
             \/ bloop = "exited" /\ ncb < MaxCallbacks + 2
       \/ /\ ev = LoopDestroyed
          /\ control = "Exit"
          /\ ~destroyed

\* The native loop invokes event_handler: the events of a loop iteration,
\* and LoopDestroyed as the last one once the directive is Exit.
LoopInvokes(ev) ==
    /\ bloop = "running"
    /\ cb = "none"
    /\ ~destroyed
    /\ \/ /\ ev \in NativeEvents
          /\ ncb < MaxCallbacks \/ (apc = "sending" /\ control = "Poll")
       \/ /\ ev = LoopDestroyed
          /\ control = "Exit"

\* event_handler, first part: the poll of the exit channel.
CallbackPoll ==
    \E ev \in NativeEvents \cup {LoopDestroyed} :
        /\ LoopInvokes(ev)
        /\ cb' = "polled"
        /\ cbEvent' = ev
        /\ destroyed' = (ev = LoopDestroyed)
        /\ ncb' = IF ev = LoopDestroyed THEN ncb ELSE ncb + 1
        /\ control' = PollControl(TryRecvOk, control)
        /\ IF TryRecvOk
           THEN /\ nrecv' = nrecv + 1
                /\ IF exitBuf > 0
                   THEN /\ exitBuf' = exitBuf - 1
                        /\ UNCHANGED sendTaken
                   ELSE /\ sendTaken' = TRUE
                        /\ UNCHANGED exitBuf
           ELSE UNCHANGED <<nrecv, exitBuf, sendTaken>>
        /\ UNCHANGED configVars
        /\ UNCHANGED cmdVars
        /\ UNCHANGED keyboard_input
        /\ UNCHANGED <<bloop, chan, apc, exitPending,
                       nsent, nsendStart, nsendRet, ticks>>
        /\ UNCHANGED worldVars
        /\ UNCHANGED drainVars

\* event_handler, second part: translate the native event and send it,
\* unwrapped, on the Event Channel.
CallbackSend ==
    /\ cb = "polled"
    /\ IF EventReceiverDropped
       THEN /\ bloop' = "panicked"
            /\ cb' = "none"
            /\ cbEvent' = NoEvent
            /\ UNCHANGED <<chan, nsent>>
       ELSE /\ chan' = Append(chan, Translate(cbEvent, nsent + 1))
            /\ nsent' = nsent + 1
            /\ cb' = "sent"
            /\ UNCHANGED <<bloop, cbEvent>>
    /\ UNCHANGED configVars
    /\ UNCHANGED cmdVars
    /\ UNCHANGED keyboard_input
    /\ UNCHANGED <<control, destroyed, exitBuf,
                   sendTaken, apc, exitPending, nrecv, nsendStart, nsendRet,
                   ncb, ticks>>
    /\ UNCHANGED worldVars
    /\ UNCHANGED drainVars

\* event_handler returns to the native loop: the send was its last statement
\* and nothing makes it wait for the receiver.  The EventLoopWindowTarget
\* reference it was called with ends here.
CallbackReturn ==
    /\ cb = "sent"
    /\ cb' = "none"
    /\ cbEvent' = NoEvent
    /\ UNCHANGED configVars
    /\ UNCHANGED cmdVars
    /\ UNCHANGED keyboard_input
    /\ UNCHANGED <<bloop, control, destroyed, chan,
                   exitBuf, sendTaken, apc, exitPending, nsent, nrecv,
                   nsendStart, nsendRet, ncb, ticks>>
    /\ UNCHANGED worldVars
    /\ UNCHANGED drainVars

\* The native loop ends after LoopDestroyed; event_handler is dropped.
LoopExit ==
    /\ bloop = "running"
    /\ cb = "none"
    /\ control = "Exit"
    /\ destroyed
    /\ bloop' = "exited"
    /\ UNCHANGED configVars
    /\ UNCHANGED cmdVars
    /\ UNCHANGED keyboard_input
    /\ UNCHANGED <<cb, cbEvent, control, destroyed,
                   chan, exitBuf, sendTaken, apc, exitPending, nsent, nrecv,
                   nsendStart, nsendRet, ncb, ticks>>
    /\ UNCHANGED worldVars
    /\ UNCHANGED drainVars

\* run(event_loop, event_handler) -> !: EventLoop::run ends the process once
\* the loop has ended; run_return returns to the closure instead.
ProcessExit ==
    /\ ~should_return_from_run
    /\ bloop = "exited"
    /\ apc \notin {"killed", "returned", "panicked"}
    /\ apc' = "killed"
    /\ UNCHANGED configVars
    /\ UNCHANGED cmdVars
    /\ UNCHANGED keyboard_input
    /\ UNCHANGED <<chan, exitBuf, sendTaken,
                   exitPending, nsent, nrecv, nsendStart, nsendRet, ticks>>
    /\ UNCHANGED backendVars
    /\ UNCHANGED worldVars
    /\ UNCHANGED drainVars

\* ---------------------------------------------------- Application Thread
\* A start that creates the channels and spawns the thread before it looks
\* at is_any_thread.
RunnerStartSpawnsFirst ==
    /\ apc = "start"
    /\ channels' = TRUE
    /\ bloop' = "init"
    /\ apc' = IF is_any_thread THEN "check" ELSE "rejected"
    /\ UNCHANGED <<is_any_thread, should_return_from_run,
                   run_return_supported>>
    /\ UNCHANGED cmdVars
    /\ UNCHANGED keyboard_input
    /\ UNCHANGED <<cb, cbEvent, control, destroyed, ncb>>
    /\ UNCHANGED <<chan, exitBuf, sendTaken, exitPending, nsent, nrecv,
                   nsendStart, nsendRet, ticks>>
    /\ UNCHANGED worldVars
    /\ UNCHANGED drainVars

\* winit_runner_with up to its loop: panic unless is_any_thread; otherwise
\* create the channels and spawn the backend thread.
RunnerStart ==
    /\ apc = "start"
    /\ IF ~is_any_thread
       THEN /\ apc' = "rejected"
            /\ UNCHANGED <<channels, bloop>>
       ELSE /\ channels' = TRUE
            /\ bloop' = "init"
            /\ apc' = "check"
    /\ UNCHANGED <<is_any_thread, should_return_from_run,
                   run_return_supported>>
    /\ UNCHANGED cmdVars
    /\ UNCHANGED keyboard_input
    /\ UNCHANGED <<cb, cbEvent, control, destroyed, ncb>>
    /\ UNCHANGED <<chan, exitBuf, sendTaken, exitPending, nsent, nrecv,
                   nsendStart, nsendRet, ticks>>
    /\ UNCHANGED worldVars
    /\ UNCHANGED drainVars

\* sync_channel send returns at once while the buffer has room.
SendHasRoomUnbounded(buf) == TRUE
SendHasRoom(buf) == buf < ExitChanCapacity

\* A loop top that goes on to the drain without reading the AppExit events.
ExitCheckKeepsEvent ==
    /\ apc = "check"
    /\ ticks < MaxTicks
    /\ ticks' = ticks + 1
    /\ apc' = "drain"
    /\ UNCHANGED configVars
    /\ UNCHANGED cmdVars
    /\ UNCHANGED keyboard_input
    /\ UNCHANGED <<chan, exitBuf, sendTaken,
                   exitPending, nsent, nrecv, nsendStart, nsendRet>>
    /\ UNCHANGED backendVars
    /\ UNCHANGED worldVars
    /\ UNCHANGED drainVars

\* Top of the loop: read the new AppExit events; if there is one, send the
\* exit signal, unwrapped.  sync_channel send: Err when the receiver is gone,
\* returns at once while the buffer has room, blocks otherwise.
ExitCheck ==
    /\ apc = "check"
    /\ ticks < MaxTicks \/ exitPending
    /\ ticks' = ticks + 1
    /\ exitPending' = FALSE
    /\ IF exitPending
       THEN /\ nsendStart' = nsendStart + 1
            /\ IF ExitReceiverDropped
               THEN /\ apc' = "panicked"
                    /\ UNCHANGED <<exitBuf, nsendRet>>
               ELSE IF SendHasRoom(exitBuf)
               THEN /\ apc' = "drain"
                    /\ exitBuf' = exitBuf + 1
                    /\ nsendRet' = nsendRet + 1
               ELSE /\ apc' = "sending"
                    /\ UNCHANGED <<exitBuf, nsendRet>>
       ELSE /\ apc' = "drain"
            /\ UNCHANGED <<nsendStart, exitBuf, nsendRet>>
    /\ UNCHANGED configVars
    /\ UNCHANGED cmdVars
    /\ UNCHANGED keyboard_input
    /\ UNCHANGED <<chan, sendTaken, nsent, nrecv>>
    /\ UNCHANGED backendVars
    /\ UNCHANGED worldVars
    /\ UNCHANGED drainVars

\* The blocked send returns: Ok once the receiver has taken the signal, Err
\* (unwrap panics) once the receiver is gone.
SendReturn ==
    /\ apc = "sending"
    /\ sendTaken \/ ExitReceiverDropped
    /\ sendTaken' = FALSE
    /\ IF sendTaken
       THEN /\ apc' = "drain"
            /\ nsendRet' = nsendRet + 1
       ELSE /\ apc' = "panicked"
            /\ UNCHANGED nsendRet
    /\ UNCHANGED configVars
    /\ UNCHANGED cmdVars
    /\ UNCHANGED keyboard_input
    /\ UNCHANGED <<chan, exitBuf, exitPending, nsent,
                   nrecv, nsendStart, ticks>>
    /\ UNCHANGED backendVars
    /\ UNCHANGED worldVars
    /\ UNCHANGED drainVars

\* A drain that builds the vec back to front.
RECURSIVE TryIterCollectReversed(_)
TryIterCollectReversed(ch) ==
    IF ch = <<>> THEN <<>>
    ELSE Append(TryIterCollectReversed(Tail(ch)), Head(ch))

\* winit_event_receiver.try_iter().for_each(|e| drainer.push(e))
RECURSIVE TryIterCollect(_)
TryIterCollect(ch) ==
    IF ch = <<>> THEN <<>>
    ELSE <<Head(ch)>> \o TryIterCollect(Tail(ch))

\* WinitWindows::get_window_id: the application id registered for a backend
\* id, 0 for None.
GetWindowId(ww, wid) ==
    IF \E p \in ww : p[1] = wid
    THEN (CHOOSE p \in ww : p[1] = wid)[2]
    ELSE 0

\* Application-bus events one WinitWindowEvent publishes for window w.
PublishWindowEvent(e, w) ==
    IF e.wev = "CloseRequested"
    THEN <<[src |-> e.id, ev |-> "WindowCloseRequested", id |-> w]>>
    ELSE <<>>

\* The body of `for e in drainer.drain(..)` for one event.  st is the state
\* the loop works on: ret (the function has returned), pub (events
\* published), elwt (current_elwt), proxy, handled and skipped.
DispatchOne(st, e, ww, ws) ==
    LET window_id == GetWindowId(ww, e.wid)
        done == [st EXCEPT !.handled = Append(@, e.id)]
    IN  IF st.ret THEN st
        ELSE CASE e.tag = "WindowEvent" ->
                    IF window_id = 0 \/ window_id \notin ws
                    THEN \* warn!(...); return;
                         [st EXCEPT !.ret = TRUE, !.skipped = Append(@, e.id)]
                    ELSE [done EXCEPT !.pub = @ \o PublishWindowEvent(e, window_id)]
               [] e.tag = "MouseMotion" ->
                    [done EXCEPT !.pub =
                        Append(@, [src |-> e.id, ev |-> "MouseMotion", id |-> 0])]
               [] e.tag = "CreatedProxy" -> [done EXCEPT !.proxy = TRUE]
               [] e.tag = "MainEventsCleared" -> [done EXCEPT !.elwt = e.id]
               [] OTHER -> done

RECURSIVE DispatchAll(_, _, _, _)
DispatchAll(st, evs, ww, ws) ==
    IF evs = <<>> THEN st
    ELSE DispatchAll(DispatchOne(st, Head(evs), ww, ws), Tail(evs), ww, ws)

\* An iterator that waits for an event, as Receiver::iter does.
IterReady(ch) == ch # <<>>

\* Receiver::try_iter never waits: with nothing pending (or the sender gone)
\* it ends at once.
TryIterReady(ch) == TRUE

\* Drain the Event Channel into the local vec and dispatch its events in
\* order.
DrainAndDispatch ==
    /\ apc = "drain"
    /\ TryIterReady(chan)
    /\ LET drainer == TryIterCollect(chan)
           st == DispatchAll([ret |-> FALSE, pub |-> <<>>, elwt |-> current_elwt,
                              proxy |-> proxy, handled |-> <<>>,
                              skipped |-> <<>>],
                             drainer, winit_windows, windows)
       IN  /\ chan' = <<>>
           /\ drained' = chan
           /\ handled' = st.handled
           /\ skipped' = st.skipped
           /\ published' = st.pub
           /\ current_elwt' = st.elwt
           /\ proxy' = st.proxy
           /\ apc' = IF st.ret THEN "returned" ELSE "create"
    /\ UNCHANGED configVars
    /\ UNCHANGED cmdVars
    /\ UNCHANGED keyboard_input
    /\ UNCHANGED <<exitBuf, sendTaken, exitPending,
                   nsent, nrecv, nsendStart, nsendRet, ticks, winit_windows,
                   windows, createEvents, requested, nrecorded, created,
                   nupdates>>
    /\ UNCHANGED backendVars

\* A handler that takes the requests last to first.
RECURSIVE HandleCreateWindowEventsReversed(_, _, _, _)
HandleCreateWindowEventsReversed(evs, ww, ws, pub) ==
    IF evs = <<>> THEN [ww |-> ww, ws |-> ws, pub |-> pub]
    ELSE LET id == evs[Len(evs)]
             wid == Cardinality(ww) + 1
         IN  HandleCreateWindowEventsReversed(
                 SubSeq(evs, 1, Len(evs) - 1), ww \cup {<<wid, id>>},
                 ws \cup {id},
                 Append(pub, [src |-> 0, ev |-> "WindowCreated", id |-> id]))

\* A handler that adds the Windows without registering them.
RECURSIVE HandleCreateWindowEventsUnregistered(_, _, _, _)
HandleCreateWindowEventsUnregistered(evs, ww, ws, pub) ==
    IF evs = <<>> THEN [ww |-> ww, ws |-> ws, pub |-> pub]
    ELSE LET id == Head(evs)
         IN  HandleCreateWindowEventsUnregistered(
                 Tail(evs), ww, ws \cup {id},
                 Append(pub, [src |-> 0, ev |-> "WindowCreated", id |-> id]))

\* A handler that leaves the requests where they are.
HandleCreateWindowEventsSkipped(evs, ww, ws, pub) ==
    [ww |-> ww, ws |-> ws, pub |-> pub]

\* WinitWindows::create_window: the Registry gains the entry of the new
\* native window, which the backend gives an id of its own.
CreateWindow(ww, id) == ww \cup {<<Cardinality(ww) + 1, id>>}

\* handle_create_window_events: for each CreateWindow event not yet read, in
\* order, create the native window, register it, add the Window, publish
\* WindowCreated.
RECURSIVE HandleCreateWindowEvents(_, _, _, _)
HandleCreateWindowEvents(evs, ww, ws, pub) ==
    IF evs = <<>> THEN [ww |-> ww, ws |-> ws, pub |-> pub]
    ELSE LET id == Head(evs)
         IN  HandleCreateWindowEvents(
                 Tail(evs), CreateWindow(ww, id), ws \cup {id},
                 Append(pub, [src |-> 0, ev |-> "WindowCreated", id |-> id]))

\* The EventLoop that owns the EventLoopWindowTarget is a local of the
\* spawned closure: it is dropped when the closure returns from run_return
\* or unwinds.  current_elwt then points to freed memory.
ElwtDangling ==
    \/ bloop = "panicked"
    \/ bloop = "exited" /\ should_return_from_run

\* create_window dereferences the handle: with a dangling handle the call is
\* undefined behaviour, which either goes through or ends the process.
CreateWindowOutcomes ==
    IF current_elwt # 0 /\ createEvents # <<>> /\ ElwtDangling
    THEN {"ok", "crash"}
    ELSE {"ok"}

\* Ids of the WindowCreated events in a sequence of application-bus events.
RECURSIVE WindowCreatedIds(_)
WindowCreatedIds(pub) ==
    IF pub = <<>> THEN <<>>
    ELSE IF Head(pub).ev = "WindowCreated"
         THEN <<Head(pub).id>> \o WindowCreatedIds(Tail(pub))
         ELSE WindowCreatedIds(Tail(pub))

\* End of the tick: with an event-loop handle recorded, create the requested
\* windows and run app.update(), whose systems may record an AppExit event
\* and a CreateWindow event.
CreateAndUpdate ==
    /\ apc = "create"
    /\ \E outcome \in CreateWindowOutcomes :
          \/ /\ outcome = "crash"
             /\ apc' = "killed"
             /\ UNCHANGED <<winit_windows, windows, published, exitPending,
                            requested, createEvents, nrecorded, created,
                            nupdates>>
          \/ /\ outcome = "ok"
             /\ apc' = "check"
             /\ IF current_elwt # 0
                THEN LET r == HandleCreateWindowEvents(
                                  createEvents, winit_windows, windows,
                                  published)
                     IN  /\ winit_windows' = r.ww
                         /\ windows' = r.ws
                         /\ published' = r.pub
                         /\ created' = created \o WindowCreatedIds(r.pub)
                         /\ nupdates' = nupdates + 1
                         /\ \E exit \in BOOLEAN, create \in BOOLEAN :
                               /\ create => requested < MaxWindows
                               /\ exitPending' = (exitPending \/ exit)
                               /\ nrecorded' =
                                     IF exit THEN nrecorded + 1 ELSE nrecorded
                               /\ requested' =
                                     IF create THEN requested + 1 ELSE requested
                               /\ createEvents' =
                                     IF create THEN <<requested + 1>> ELSE <<>>
                ELSE UNCHANGED <<winit_windows, windows, published,
                                 exitPending, requested, createEvents,
                                 nrecorded, created, nupdates>>
    /\ UNCHANGED configVars
    /\ UNCHANGED cmdVars
    /\ UNCHANGED keyboard_input
    /\ UNCHANGED <<chan, exitBuf, sendTaken, nsent,
                   nrecv, nsendStart, nsendRet, ticks, current_elwt, proxy>>
    /\ UNCHANGED backendVars
    /\ drained' = <<>>
    /\ handled' = <<>>
    /\ skipped' = <<>>

\* ------------------------------------------------- Window Command Processor
\* A drain that yields the queue back to front.
RECURSIVE DrainCommandsReversed(_)
DrainCommandsReversed(q) ==
    IF q = <<>> THEN <<>>
    ELSE Append(DrainCommandsReversed(Tail(q)), Head(q))

\* bevy_window.drain_commands(): the queued commands, first enqueued first.
RECURSIVE DrainCommands(_)
DrainCommands(q) ==
    IF q = <<>> THEN <<>>
    ELSE <<Head(q)>> \o DrainCommands(Tail(q))

\* A conversion with the scale factor the Window has stored.
SetResolutionStoredScale(c, stored) == stored

\* The scale factor SetResolution converts with: the one of the command.
SetResolutionScale(c, stored) == c.scale_factor

\* LogicalSize::new(width, height).to_physical(scale_factor)
ToPhysical(width, height, scale_factor) ==
    <<width * scale_factor, height * scale_factor>>

\* A test that lets one finite bound do.
MaxIsSetEither(c) == IsFinite(c.max_width) \/ IsFinite(c.max_height)

\* constraints.max_width.is_finite() && constraints.max_height.is_finite()
MaxIsSet(c) == IsFinite(c.max_width) /\ IsFinite(c.max_height)

\* An arm that also asks the native window for a size.
ApplySetScaleFactorResizing(st, id, c) ==
    [st EXCEPT
        !.events = Append(@, [id |-> id, scale_factor |-> c.scale_factor]),
        !.backend[id].inner_size =
            ToPhysical(800, 600, c.scale_factor)]

\* The arm SetScaleFactor: send WindowScaleFactorChanged { id, scale_factor }.
ApplySetScaleFactor(st, id, c) ==
    [st EXCEPT
        !.events = Append(@, [id |-> id, scale_factor |-> c.scale_factor])]

\* One arm of `match command` for the Window id.  st holds the native
\* windows (backend), the scale-factor events sent (events) and the
\* commands matched so far (log).  Every Window has its Registry entry, so
\* get_window(id).unwrap() goes through.
ApplyCommand(st, id, c, stored) ==
    LET done == [st EXCEPT !.log = Append(@, [id |-> id, cmd |-> c])]
    IN  CASE c.tag = "SetTitle" ->
               [done EXCEPT !.backend[id].title = c.title]
          [] c.tag = "SetScaleFactor" -> ApplySetScaleFactor(done, id, c)
          [] c.tag = "SetResolution" ->
               [done EXCEPT !.backend[id].inner_size =
                   ToPhysical(c.width, c.height,
                              SetResolutionScale(c, stored))]
          [] c.tag = "SetResizeConstraints" ->
               [done EXCEPT
                   !.backend[id].min_inner_size =
                       <<c.min_width, c.min_height>>,
                   !.backend[id].max_inner_size =
                       IF MaxIsSet(c) THEN <<c.max_width, c.max_height>>
                       ELSE @]
          [] OTHER -> done

\* `for command in bevy_window.drain_commands()` for the Window id.
RECURSIVE ApplyCommands(_, _, _, _)
ApplyCommands(st, id, cmds, stored) ==
    IF cmds = <<>> THEN st
    ELSE ApplyCommands(ApplyCommand(st, id, Head(cmds), stored), id,
                       Tail(cmds), stored)

\* `for bevy_window in windows.iter_mut()`, the Windows taken in the order
\* ids.
RECURSIVE ApplyWindows(_, _, _, _)
ApplyWindows(st, ids, queues, scales) ==
    IF ids = <<>> THEN st
    ELSE ApplyWindows(
             ApplyCommands(st, Head(ids), DrainCommands(queues[Head(ids)]),
                           scales[Head(ids)]),
             Tail(ids), queues, scales)

\* The orders in which the map of Windows may be iterated.
IterationOrders(ids) ==
    {o \in [1..Cardinality(ids) -> ids] :
        \A i, j \in DOMAIN o : o[i] = o[j] => i = j}

\* Application code enqueues a command on a Window.
EnqueueCommand ==
    /\ nenq < MaxCommands
    /\ \E w \in CmdWindowIds, c \in WindowCommands :
          commands' = [commands EXCEPT ![w] = Append(@, c)]
    /\ nenq' = nenq + 1
    /\ UNCHANGED <<window_scale, window_physical, backend, scaleEvents,
                   applied>>
    /\ UNCHANGED runnerVars
    /\ UNCHANGED keyboard_input

\* change_window: one run of the system.
ChangeWindow ==
    /\ \E order \in IterationOrders(CmdWindowIds) :
          LET st == ApplyWindows([backend |-> backend, events |-> <<>>,
                                  log |-> <<>>],
                                 order, commands, window_scale)
          IN  /\ backend' = st.backend
              /\ scaleEvents' = st.events
              /\ applied' = st.log
    /\ commands' = [w \in CmdWindowIds |-> <<>>]
    /\ UNCHANGED <<window_scale, window_physical, nenq>>
    /\ UNCHANGED runnerVars
    /\ UNCHANGED keyboard_input

\* The runner between two ticks, with the Windows of CmdWindowIds created
\* by the first tick.
RunnerBetweenTicks ==
    LET r == HandleCreateWindowEvents(<<1, 2>>, {}, {}, <<>>)
    IN  /\ is_any_thread = TRUE
        /\ should_return_from_run = FALSE
        /\ run_return_supported = TRUE
        /\ channels = TRUE
        /\ bloop = "running"
        /\ cb = "none"
        /\ cbEvent = NoEvent
        /\ control = "Poll"
        /\ destroyed = FALSE
        /\ chan = <<>>
        /\ exitBuf = 0
        /\ sendTaken = FALSE
        /\ apc = "check"
        /\ exitPending = FALSE
        /\ current_elwt = 2
        /\ proxy = TRUE
        /\ winit_windows = r.ww
        /\ windows = r.ws
        /\ createEvents = <<>>
        /\ published = r.pub
        /\ nsent = 2
        /\ nrecv = 0
        /\ nsendStart = 0
        /\ nsendRet = 0
        /\ ncb = 1
        /\ ticks = 1
        /\ requested = 2
        /\ nrecorded = 0
        /\ created = <<1, 2>>
        /\ nupdates = 1
        /\ drained = <<>>
        /\ handled = <<>>
        /\ skipped = <<>>

CmdInit ==
    /\ RunnerBetweenTicks
    /\ commands = [w \in CmdWindowIds |-> <<>>]
    /\ window_scale \in [CmdWindowIds -> {1, 2}]
    /\ window_physical = [w \in CmdWindowIds |-> <<800, 600>>]
    /\ backend = [w \in CmdWindowIds |-> FreshWindow]
    /\ scaleEvents = <<>>
    /\ applied = <<>>
    /\ nenq = 0
    /\ keyboard_input = <<>>

CmdNext == EnqueueCommand \/ ChangeWindow

\* change_window and the code that enqueues commands, with the runner at
\* rest.
CmdSpec == CmdInit /\ [][CmdNext]_vars

\* ------------------------------------------------ ScaleFactorChanged arm
\* Scale factors and physical sizes the backend reports.
ScaleFactors == {1, 2}
PhysicalSizes == {<<800, 600>>, <<1600, 1200>>}

\* Window::width(), Window::height(): the logical size, the physical size
\* over the scale factor.
WindowWidth(win) == win.physical[1] \div win.scale_factor
WindowHeight(win) == win.physical[2] \div win.scale_factor

\* A test that takes every reported factor for a new one.
ScaleFactorAlwaysDiffers(win, scale_factor) == TRUE

\* window.scale_factor() != scale_factor
ScaleFactorDiffers(win, scale_factor) == win.scale_factor # scale_factor

\* The arm WinitWindowEvent::ScaleFactorChanged(scale_factor,
\* new_inner_size) for the Window win with id window_id, statement by
\* statement: the events it sends, in order, and the Window it leaves.
ScaleFactorChanged(win, window_id, scale_factor, new_inner_size) ==
    LET sent1 == <<[src |-> 0, ev |-> "WindowBackendScaleFactorChanged",
                    id |-> window_id, scale_factor |-> scale_factor]>>
        sent2 == IF ScaleFactorDiffers(win, scale_factor)
                 THEN Append(sent1,
                             [src |-> 0, ev |-> "WindowScaleFactorChanged",
                              id |-> window_id,
                              scale_factor |-> scale_factor])
                 ELSE sent1
        \* window.update_scale_factor_from_backend(scale_factor)
        win1 == [win EXCEPT !.scale_factor = scale_factor]
        sent3 == IF win1.physical # new_inner_size
                 THEN Append(sent2,
                             [src |-> 0, ev |-> "WindowResized",
                              id |-> window_id,
                              width |-> WindowWidth(win1),
                              height |-> WindowHeight(win1)])
                 ELSE sent2
        \* window.update_actual_size_from_backend(width, height)
        win2 == [win1 EXCEPT !.physical = new_inner_size]
    IN  [win |-> win2, pub |-> sent3]

\* The drain loop dispatches one ScaleFactorChanged event whose backend id
\* resolves to a Window.
DispatchScaleFactorChanged ==
    \E wid \in {p[1] : p \in winit_windows}, scale_factor \in ScaleFactors,
       new_inner_size \in PhysicalSizes :
        LET window_id == GetWindowId(winit_windows, wid)
            r == ScaleFactorChanged(
                     [scale_factor |-> window_scale[window_id],
                      physical |-> window_physical[window_id]],
                     window_id, scale_factor, new_inner_size)
        IN  /\ window_id \in windows
            /\ published' = r.pub
            /\ window_scale' =
                  [window_scale EXCEPT ![window_id] = r.win.scale_factor]
            /\ window_physical' =
                  [window_physical EXCEPT ![window_id] = r.win.physical]
            /\ UNCHANGED <<commands, backend, scaleEvents, applied, nenq>>
            /\ UNCHANGED keyboard_input
            /\ UNCHANGED configVars
            /\ UNCHANGED backendVars
            /\ UNCHANGED drainVars
            /\ UNCHANGED <<chan, exitBuf, sendTaken, apc, exitPending, nsent,
                           nrecv, nsendStart, nsendRet, ticks, current_elwt,
                           proxy, winit_windows, windows, createEvents,
                           requested, nrecorded, created, nupdates>>

\* The Windows as the backend may have left them when the event arrives.
ScaleInit ==
    /\ RunnerBetweenTicks
    /\ commands = [w \in CmdWindowIds |-> <<>>]
    /\ window_scale \in [CmdWindowIds -> ScaleFactors]
    /\ window_physical \in [CmdWindowIds -> PhysicalSizes]
    /\ backend = [w \in CmdWindowIds |-> FreshWindow]
    /\ scaleEvents = <<>>
    /\ applied = <<>>
    /\ nenq = 0
    /\ keyboard_input = <<>>

ScaleNext == DispatchScaleFactorChanged

\* The ScaleFactorChanged arm of the drain loop, with the rest of the runner
\* at rest.
ScaleSpec == ScaleInit /\ [][ScaleNext]_vars

\* ------------------------------------------------- legacy keyboard channel
\* bevy_input::keyboard::KeyboardInput as convert_keyboard_input builds it.
KeyboardInputs == [key_code : {"A", "B"}, state : {"Pressed", "Released"}]

\* converters::convert_keyboard_input: scan code, state and key code of the
\* native input are carried over.
ConvertKeyboardInput(input) ==
    [key_code |-> input.key_code, state |-> input.state]

\* mpsc::channel::<KeyboardInput>(): a send appends and never waits.
KeyboardSend(ch, input) == Append(ch, input)

\* event_handler invoked with WindowEvent::KeyboardInput for a window of the
\* Registry: the exit channel is empty, the input is mirrored to the
\* keyboard channel and the translated event is enqueued on the Event
\* Channel.
KeyboardInputCallback ==
    /\ bloop = "running"
    /\ cb = "none"
    /\ ncb <= MaxCallbacks
    /\ \E wid \in {p[1] : p \in winit_windows}, native \in KeyboardInputs :
          LET input == ConvertKeyboardInput(native)
          IN  /\ keyboard_input' = KeyboardSend(keyboard_input, input)
              /\ chan' = Append(chan, [id |-> nsent + 1, tag |-> "WindowEvent",
                                       wev |-> "KeyboardInput", wid |-> wid,
                                       input |-> input])
    /\ ncb' = ncb + 1
    /\ nsent' = nsent + 1
    /\ UNCHANGED configVars
    /\ UNCHANGED cmdVars
    /\ UNCHANGED drainVars
    /\ UNCHANGED worldVars
    /\ UNCHANGED <<bloop, cb, cbEvent, control, destroyed, exitBuf, sendTaken,
                   apc, exitPending, nrecv, nsendStart, nsendRet, ticks>>

\* The KeyboardInput arm of the drain loop for the events of one drain.
RECURSIVE PublishKeyboardInputs(_)
PublishKeyboardInputs(evs) ==
    IF evs = <<>> THEN <<>>
    ELSE <<[src |-> Head(evs).id, ev |-> "KeyboardInput",
            input |-> Head(evs).input]>>
         \o PublishKeyboardInputs(Tail(evs))

\* One drain of the Event Channel while it holds keyboard events only: each
\* is published on the application bus; the keyboard channel is not read.
KeyboardDrain ==
    /\ apc = "check"
    /\ chan # <<>>
    /\ LET drainer == TryIterCollect(chan)
       IN  /\ published' = PublishKeyboardInputs(drainer)
           /\ drained' = chan
           /\ handled' = [i \in 1..Len(drainer) |-> drainer[i].id]
    /\ chan' = <<>>
    /\ UNCHANGED keyboard_input
    /\ UNCHANGED configVars
    /\ UNCHANGED cmdVars
    /\ UNCHANGED backendVars
    /\ UNCHANGED <<skipped, exitBuf, sendTaken, apc, exitPending, nsent,
                   nrecv, nsendStart, nsendRet, ticks, current_elwt, proxy,
                   winit_windows, windows, createEvents, requested,
                   nrecorded, created, nupdates>>

\* The polling consumer of the Mutex<Receiver<KeyboardInput>> resource takes
\* the oldest pending input.
KeyboardPoll ==
    /\ keyboard_input # <<>>
    /\ keyboard_input' = Tail(keyboard_input)
    /\ UNCHANGED runnerVars
    /\ UNCHANGED cmdVars

KeyInit == RunnerBetweenTicks /\ CmdIdle

KeyNext == KeyboardInputCallback \/ KeyboardDrain \/ KeyboardPoll

\* The keyboard mirror of the callback, its drain and its consumer, with the
\* rest of the runner at rest.
KeySpec == KeyInit /\ [][KeyNext]_vars

\* ------------------------------------------------------- specification
BackendNext ==
    \/ BackendStart
    \/ CallbackPoll
    \/ CallbackSend
    \/ CallbackReturn
    \/ LoopExit
    \/ ProcessExit
AppNext ==
    \/ RunnerStart
    \/ ExitCheck
    \/ SendReturn
    \/ DrainAndDispatch
    \/ CreateAndUpdate

Next == BackendNext \/ AppNext

Spec == Init /\ [][Next]_vars

\* The runs that start with the primary window's request alone.
LiveInit == Init /\ requested = 1

\* Both threads are scheduled by the operating system: while some step of
\* the program is possible, one is eventually taken.
LiveSpec == LiveInit /\ [][Next]_vars /\ WF_vars(Next)

\* ------------------------------------------------------------ properties
Range(f) == {f[i] : i \in DOMAIN f}

\* The drain loop of the current tick has ended (normally or by the return).
DrainLoopEnded == apc \in {"create", "returned"}

\* An event of the drain resolves: it is no WindowEvent, or its backend id
\* is registered and the Window exists.
Resolves(e) ==
    e.tag = "WindowEvent" =>
        /\ GetWindowId(winit_windows, e.wid) # 0
        /\ GetWindowId(winit_windows, e.wid) \in windows

\* C1: when the drain loop of a tick has ended, every event of that drain
\* that resolves has been dispatched; only unresolved events were skipped.
C1_OnlyUnresolvedSkipped ==
    DrainLoopEnded =>
        \A i \in 1..Len(drained) :
            Resolves(drained[i]) => drained[i].id \in Range(handled)

\* C2: an unresolved WindowEvent never stops the application thread's loop.
C2_LoopSurvivesUnresolved == apc # "returned"

\* Position of the event with identity n in the channel as the drain found it.
Pos(n) == CHOOSE i \in 1..Len(drained) : drained[i].id = n

\* C3: the application-bus events republished by the drain of a tick are
\* in the relative order in which their backend events were enqueued.
C3_OrderPreserved ==
    DrainLoopEnded =>
        \A i, j \in 1..Len(published) :
            i < j =>
                /\ \E k \in 1..Len(drained) : drained[k].id = published[i].src
                /\ \E k \in 1..Len(drained) : drained[k].id = published[j].src
                /\ Pos(published[i].src) < Pos(published[j].src)

C3_Witness ==
    /\ apc = "create"
    /\ Len(published) >= 2
    /\ published[1].src # published[2].src

Count(seq, x) == Cardinality({i \in DOMAIN seq : seq[i] = x})

\* C4: every event a drain took out of the Event Channel has been
\* dispatched exactly once (its match arm ran, or it was the unresolved
\* event that was skipped) when the drain loop has ended.
C4_NoLossNoDuplication ==
    DrainLoopEnded =>
        \A i \in 1..Len(drained) :
            Count(handled \o skipped, drained[i].id) = 1

\* C5: once an application-exit event has been recorded, the backend thread
\* eventually receives the exit signal, its directive is Exit and its loop
\* exits.
C5_ShutdownLiveness ==
    exitPending ~> (nrecv > 0 /\ control = "Exit" /\ bloop = "exited")

\* C6 as stated: once the backend thread has received the exit signal, no
\* event is enqueued on the Event Channel any more.
C6_NoEnqueueAfterObserved == [][(nrecv > 0) => (nsent' = nsent)]_vars

\* C6 as amended: once the backend thread's loop has ended, no event is
\* enqueued on the Event Channel any more.
C6_NoEnqueueAfterLoopEnd ==
    [][(bloop \in {"exited", "panicked"}) => (nsent' = nsent)]_vars

C6_Witness ==
    /\ bloop = "exited"
    /\ nrecv > 0
    /\ chan # <<>>
    /\ chan[Len(chan)].tag = "None"

\* C7: no tick reaches its drain with an unread application-exit event:
\* every tick in which one was recorded has been followed by a send of the
\* exit signal before the next drain.
C7_ExitSentBeforeDrain ==
    apc \in {"drain", "create", "returned"} =>
        /\ ~exitPending
        /\ nsendStart = nrecorded

C7_Witness ==
    /\ apc = "drain"
    /\ nrecorded = 1
    /\ nsendRet = 1

\* C8: the exit channel never holds a signal nobody has taken, and no send
\* has returned Ok without the backend thread having received its signal.
C8_Rendezvous ==
    /\ exitBuf = 0
    /\ nsendRet <= nrecv

C8_Witness ==
    /\ nsendRet >= 1
    /\ apc = "drain"

\* C9: every send of the exit signal the application thread blocks in comes
\* to an end (Ok, Err, or the end of the process).
C9_SendReturns == (apc = "sending") ~> (apc # "sending")

C9_Witness ==
    /\ apc = "sending"
    /\ nsendStart >= 2

\* C10: the exit signal is sent at most once.
C10_AtMostOneSend == nsendStart <= 1

\* The tick's last step runs with an event-loop handle: the create-window
\* step and app.update() are performed.
CreateStepRuns == apc = "create" /\ apc' = "check" /\ current_elwt # 0

\* C11: a tick performs its create-window step and application update only
\* with the handle of a MainEventsCleared event its own drain consumed.
C11_HandleOfThisTick ==
    [][CreateStepRuns =>
          \E k \in 1..Len(drained) :
              /\ drained[k].tag = "MainEventsCleared"
              /\ drained[k].id = current_elwt]_vars

\* The create-window step calls create_window with the recorded handle.
CreateWindowCalled ==
    /\ apc = "create"
    /\ apc' # "create"
    /\ current_elwt # 0
    /\ createEvents # <<>>

\* The callback invocation that sent MainEventsCleared(current_elwt) has not
\* returned yet, and the native loop is running.
ProducingCallbackRunning ==
    /\ bloop = "running"
    /\ cb = "sent"
    /\ cbEvent.tag = "MainEventsCleared"
    /\ nsent = current_elwt

\* C12: whenever the application thread calls create_window with the
\* event-loop handle, the callback invocation that produced the handle has
\* not returned and the backend thread's loop has not ended.
C12_HandleUsedWithinCallback ==
    [][CreateWindowCalled => ProducingCallbackRunning]_vars

\* A tick runs to its end.
TickCompletes == apc = "create" /\ apc' = "check"

\* After the step, request id has exactly one WindowCreated event, one
\* Window and one Registry entry.
CreatedOnce(id) ==
    /\ Count(created', id) = 1
    /\ id \in windows'
    /\ Cardinality({p \in winit_windows' : p[2] = id}) = 1

\* C13 as stated: every tick that runs to its end yields, for every
\* CreateWindow request pending at its start, exactly one WindowCreated
\* event, one Window and one Registry entry.
C13_EveryTickCreates ==
    [][TickCompletes =>
          \A i \in 1..Len(createEvents) : CreatedOnce(createEvents[i])]_vars

\* C13 as amended: a tick whose create-window step runs with a recorded
\* handle yields, for every pending request, exactly one WindowCreated event,
\* one Window and one Registry entry, in arrival order; the requests it
\* processed are not pending any more, and no request was ever processed
\* twice.
C13_CreateStepRoundTrip ==
    [][CreateStepRuns =>
          /\ \A i \in 1..Len(createEvents) : CreatedOnce(createEvents[i])
          /\ created' = created \o createEvents
          /\ \A i \in 1..Len(createEvents') :
                 Count(created', createEvents'[i]) = 0
          /\ \A id \in WindowIds : Count(created', id) <= 1]_vars

C13_Witness ==
    /\ created = <<1, 2>>
    /\ nupdates >= 2
    /\ apc = "check"

\* C17: a runner started with is_any_thread = false fails before any
\* channel is created, before the backend thread is spawned and before any
\* tick; it never gets past its start.
C17_RejectedBeforeAnything ==
    /\ ~is_any_thread => apc \in {"start", "rejected"}
    /\ apc = "rejected" =>
          /\ ~is_any_thread
          /\ ~channels
          /\ bloop = "unspawned"
          /\ chan = <<>>
          /\ ticks = 0

C17_Witness == apc = "rejected"

\* run_return has panicked on a target that does not support it.
RunReturnFailed == RunReturnPanics /\ bloop = "panicked"

DrainStep == apc = "drain" /\ apc' \in {"create", "returned"}

\* C19: the drain is always possible when the application thread has
\* reached it; it takes exactly the events in the channel at that moment,
\* and with an empty channel the tick goes on with zero events.
C19_DrainNeverBlocks ==
    /\ [](apc = "drain" => ENABLED DrainAndDispatch)
    /\ [][DrainStep =>
             /\ drained' = chan
             /\ chan' = <<>>
             /\ (chan = <<>>) => (apc' = "create")]_vars

C19_Witness ==
    /\ apc = "create"
    /\ drained = <<>>
    /\ bloop = "running"

\* app.update() is invoked.
UpdateStep == nupdates' # nupdates

\* C20: app.update() is invoked once by the step that ends a tick, when
\* every event of the tick's drain has been dispatched, and every
\* CreateWindow request pending in the tick has been processed; a request
\* the update itself issues is left for the next tick.
C20_UpdateLastInTick ==
    [][UpdateStep =>
          /\ TickCompletes
          /\ nupdates' = nupdates + 1
          /\ nupdates' <= ticks
          /\ \A k \in 1..Len(drained) : drained[k].id \in Range(handled)
          /\ \A i \in 1..Len(createEvents) :
                 /\ createEvents[i] \in windows'
                 /\ Count(created', createEvents[i]) = 1
          /\ \A i \in 1..Len(createEvents') :
                 createEvents'[i] \notin windows']_vars

C20_Witness ==
    /\ nupdates = 2
    /\ ticks = 2
    /\ windows # {}
    /\ apc = "check"

\* The commands of the log that were matched for Window w, in log order.
RECURSIVE CommandsOf(_, _)
CommandsOf(log, w) ==
    IF log = <<>> THEN <<>>
    ELSE IF Head(log).id = w
         THEN <<Head(log).cmd>> \o CommandsOf(Tail(log), w)
         ELSE CommandsOf(Tail(log), w)

\* The title of the last SetTitle in cmds, old if there is none.
RECURSIVE LastTitle(_, _)
LastTitle(cmds, old) ==
    IF cmds = <<>> THEN old
    ELSE LastTitle(Tail(cmds),
                   IF Head(cmds).tag = "SetTitle" THEN Head(cmds).title
                   ELSE old)

\* One run of change_window.
ChangeWindowRuns == commands' = [w \in CmdWindowIds |-> <<>>]

\* C14: one run matches, for every Window, exactly the commands of its
\* queue, each once and in the order of enqueuing; the title the native
\* window is left with is that of the last SetTitle; the queue is empty
\* afterwards.
C14_CommandsInOrderOnce ==
    [][ChangeWindowRuns =>
          \A w \in CmdWindowIds :
              /\ CommandsOf(applied', w) = commands[w]
              /\ backend'[w].title = LastTitle(commands[w], backend[w].title)
              /\ commands'[w] = <<>>]_vars

C14_Witness ==
    /\ Len(applied) = 2
    /\ applied[1].id = applied[2].id
    /\ applied[1].cmd = [tag |-> "SetTitle", title |-> "a"]
    /\ applied[2].cmd = [tag |-> "SetTitle", title |-> "b"]
    /\ backend[applied[1].id].title = "b"

\* SetResizeConstraints is the last command the run matched for Window w.
LastIsResizeConstraints(w) ==
    /\ commands[w] # <<>>
    /\ commands[w][Len(commands[w])].tag = "SetResizeConstraints"

\* C15: after a run whose last command for a Window is SetResizeConstraints,
\* the native window's minimum inner size is the command's; its maximum
\* inner size is the command's if both maximum bounds are finite, and what
\* it was before the command otherwise.
C15_MaxOnlyIfBothFinite ==
    [][ChangeWindowRuns =>
          \A w \in CmdWindowIds :
              LastIsResizeConstraints(w) =>
                  LET n == Len(commands[w])
                      c == commands[w][n]
                      before == ApplyCommands(
                                    [backend |-> backend, events |-> <<>>,
                                     log |-> <<>>],
                                    w, SubSeq(commands[w], 1, n - 1),
                                    window_scale[w]).backend[w]
                  IN  /\ backend'[w].min_inner_size =
                             <<c.min_width, c.min_height>>
                      /\ IF IsFinite(c.max_width) /\ IsFinite(c.max_height)
                         THEN backend'[w].max_inner_size =
                                  <<c.max_width, c.max_height>>
                         ELSE backend'[w].max_inner_size =
                                  before.max_inner_size]_vars

\* A maximum set by one command has survived a later command with an
\* infinite bound.
C15_Witness ==
    \E w \in CmdWindowIds :
        /\ Len(applied) = 2
        /\ applied[1].id = w
        /\ applied[2].id = w
        /\ applied[1].cmd.tag = "SetResizeConstraints"
        /\ applied[2].cmd.tag = "SetResizeConstraints"
        /\ applied[2].cmd.max_width = Infinity
        /\ applied[2].cmd.max_height = 800
        /\ backend[w].max_inner_size = <<800, 800>>
        /\ backend[w].min_inner_size = <<600, 600>>

\* C16: after a run whose last SetResolution for a Window is c, the inner
\* size requested from the native window is the logical size of c times the
\* scale factor of c, whatever scale factor the Window has stored.
C16_ResolutionUsesCommandScale ==
    [][ChangeWindowRuns =>
          \A w \in CmdWindowIds :
              \A i \in 1..Len(commands[w]) :
                  LET c == commands[w][i]
                  IN  (/\ c.tag = "SetResolution"
                       /\ \A j \in (i + 1)..Len(commands[w]) :
                              commands[w][j].tag # "SetResolution")
                      => backend'[w].inner_size =
                             <<c.width * c.scale_factor,
                               c.height * c.scale_factor>>]_vars

\* (800, 600) at the command's scale factor 2 has given (1600, 1200) on a
\* Window whose stored scale factor is 1.
C16_Witness ==
    \E w \in CmdWindowIds :
        /\ window_scale[w] = 1
        /\ applied # <<>>
        /\ applied[Len(applied)] =
              [id |-> w,
               cmd |-> [tag |-> "SetResolution", width |-> 800,
                        height |-> 600, scale_factor |-> 2]]
        /\ backend[w].inner_size = <<1600, 1200>>

\* The state change_window and its callers start from is one the runner
\* reaches.
CmdInitReached == RunnerBetweenTicks /\ CmdIdle

\* Callback invocations so far, LoopDestroyed included.
CallbacksInvoked == ncb + (IF destroyed THEN 1 ELSE 0)

\* Events the callbacks have enqueued: all but CreatedProxy, which the
\* thread sends before its loop.
CallbackEvents == IF nsent = 0 THEN 0 ELSE nsent - 1

\* C21: every callback invocation enqueues exactly one event: the callbacks
\* invoked are as many as the events callbacks have enqueued, plus the one
\* invocation that has not reached its send yet.
C21_OneEventPerCallback ==
    CallbacksInvoked = CallbackEvents + (IF cb = "polled" THEN 1 ELSE 0)

\* The same count while no send of the backend thread has failed.
OneEventPerCallbackUntilPanic ==
    bloop # "panicked" => C21_OneEventPerCallback

\* The events of kind ev in a sequence of application-bus events.
RECURSIVE EventsOfKind(_, _)
EventsOfKind(pub, ev) ==
    IF pub = <<>> THEN <<>>
    ELSE IF Head(pub).ev = ev
         THEN <<Head(pub)>> \o EventsOfKind(Tail(pub), ev)
         ELSE EventsOfKind(Tail(pub), ev)

\* A ScaleFactorChanged event has been dispatched by this step.
ScaleFactorChangedDispatched ==
    /\ published' # <<>>
    /\ published'[1].ev = "WindowBackendScaleFactorChanged"

\* C22: a WindowResized event published for a ScaleFactorChanged event
\* carries the logical size of the Window as it was before the event: the
\* old physical size over the old scale factor.
C22_ResizeCarriesOldLogicalSize ==
    [][ScaleFactorChangedDispatched =>
          LET w == published'[1].id
              resized == EventsOfKind(published', "WindowResized")
          IN  \A i \in 1..Len(resized) :
                  /\ resized[i].width =
                         window_physical[w][1] \div window_scale[w]
                  /\ resized[i].height =
                         window_physical[w][2] \div window_scale[w]]_vars

\* C23: a dispatched ScaleFactorChanged(f, size) publishes exactly one
\* WindowBackendScaleFactorChanged{id, f}, and one
\* WindowScaleFactorChanged{id, f} if f is not the scale factor the Window
\* had before, none otherwise.
C23_ScaleEventsPublished ==
    [][ScaleFactorChangedDispatched =>
          LET w == published'[1].id
              f == published'[1].scale_factor
              back == EventsOfKind(published',
                                   "WindowBackendScaleFactorChanged")
              changed == EventsOfKind(published', "WindowScaleFactorChanged")
          IN  /\ Len(back) = 1
              /\ IF f # window_scale[w]
                 THEN /\ Len(changed) = 1
                      /\ changed[1].id = w
                      /\ changed[1].scale_factor = f
                 ELSE changed = <<>>]_vars

\* A factor that differs from the stored one has been dispatched, with its
\* event published after the backend one.
C23_Witness ==
    /\ Len(published) >= 2
    /\ published[1].ev = "WindowBackendScaleFactorChanged"
    /\ published[2].ev = "WindowScaleFactorChanged"
    /\ window_scale[published[1].id] = published[1].scale_factor

\* The queue q without its SetScaleFactor commands.
RECURSIVE WithoutSetScaleFactor(_)
WithoutSetScaleFactor(q) ==
    IF q = <<>> THEN <<>>
    ELSE IF Head(q).tag = "SetScaleFactor"
         THEN WithoutSetScaleFactor(Tail(q))
         ELSE <<Head(q)>> \o WithoutSetScaleFactor(Tail(q))

\* The SetScaleFactor commands of the log, as the events they stand for.
RECURSIVE ScaleFactorCommands(_)
ScaleFactorCommands(log) ==
    IF log = <<>> THEN <<>>
    ELSE IF Head(log).cmd.tag = "SetScaleFactor"
         THEN <<[id |-> Head(log).id,
                 scale_factor |-> Head(log).cmd.scale_factor]>>
              \o ScaleFactorCommands(Tail(log))
         ELSE ScaleFactorCommands(Tail(log))

\* C25: a run leaves the native windows as a run without the SetScaleFactor
\* commands would, and leaves the Registry alone; the scale-factor events it
\* sends are exactly one per SetScaleFactor command, with the id of the
\* Window that owned it and its scale factor.
C25_SetScaleFactorOnlyPublishes ==
    [][ChangeWindowRuns =>
          LET order == CHOOSE o \in IterationOrders(CmdWindowIds) : TRUE
              rest == [w \in CmdWindowIds |->
                          WithoutSetScaleFactor(commands[w])]
              without == ApplyWindows(
                             [backend |-> backend, events |-> <<>>,
                              log |-> <<>>],
                             order, rest, window_scale)
          IN  /\ backend' = without.backend
              /\ winit_windows' = winit_windows
              /\ scaleEvents' = ScaleFactorCommands(applied')
              /\ \A w \in CmdWindowIds :
                     Len(CommandsOf(applied', w)) = Len(commands[w])]_vars

\* A SetScaleFactor command followed by a SetTitle on the same Window: one
\* event, and the native window shows the title only.
C25_Witness ==
    \E w \in CmdWindowIds :
        /\ Len(applied) = 2
        /\ applied[1] =
              [id |-> w, cmd |-> [tag |-> "SetScaleFactor", scale_factor |-> 2]]
        /\ applied[2] = [id |-> w, cmd |-> [tag |-> "SetTitle", title |-> "a"]]
        /\ scaleEvents = <<[id |-> w, scale_factor |-> 2]>>
        /\ backend[w] = [FreshWindow EXCEPT !.title = "a"]

\* C26: every Window has exactly one Registry entry, every Registry entry
\* belongs to a Window, and no two entries share an application id or a
\* backend id.
C26_RegistryBijective ==
    /\ \A id \in windows :
           Cardinality({p \in winit_windows : p[2] = id}) = 1
    /\ \A p \in winit_windows : p[2] \in windows
    /\ \A p, q \in winit_windows :
           (p[1] = q[1]) <=> (p[2] = q[2])

C26_Witness ==
    /\ Cardinality(windows) = 2
    /\ Cardinality(winit_windows) = 2
    /\ ticks = 2
    /\ apc = "create"

\* C27: once the backend thread has received the exit signal, the
\* application thread performs no window-creation step and no application
\* update any more.
C27_NoUpdateAfterHandshake ==
    [][(nrecv > 0) =>
          /\ nupdates' = nupdates
          /\ created' = created]_vars

\* C24: the legacy keyboard channel never holds more than one pending
\* keyboard input.
C24_KeyboardChannelSingleSlot == Len(keyboard_input) <= 1

====
